---- MODULE Spec2Model ----
(***************************************************************************)
(* Brand Guardian: the two-node audit pipeline (Indexer -> Auditor), the   *)
(* /audit endpoint in front of it, and the files and storage objects the   *)
(* Indexer works on.                                                       *)
(*                                                                         *)
(* Text is a sequence of code points (Python str), so that strip, join     *)
(* and the two re.sub calls of extract_data are computed, not assumed.     *)
(* A Python dict is a TLA+ record holding exactly the keys that are set.   *)
(***************************************************************************)
EXTENDS Integers, Sequences, FiniteSets, TLC

(***************************************************************************)
(* Bounds of the model.                                                    *)
(***************************************************************************)
\* speech segments in one annotation result
MaxSegments == 1
\* OCR text annotations in one annotation result
MaxOcr == 1
\* documents one retriever call returns
MaxDocs == 1
\* entries the model's answer lists under compliance_results
MaxIssues == 1
\* speech segments and OCR text annotations in an annotation result that
\* extract_data is applied to on its own
MaxCallSegments == 3
MaxCallOcr == 2

(***************************************************************************)
(* Python str helpers.                                                     *)
(***************************************************************************)
\* str.isspace() for the code points the model uses: ASCII whitespace
\* (\t \n \v \f \r, the separators 0x1c-0x1f, space) and NEL, NBSP.
IsSpace(c) == c \in ((9..13) \cup (28..32) \cup {133, 160})

\* the complement of the class [\x00-\x7F]
IsNonAscii(c) == c > 127

RECURSIVE LStrip(_)
LStrip(s) == IF s = <<>> THEN <<>>
             ELSE IF IsSpace(Head(s)) THEN LStrip(Tail(s)) ELSE s

RECURSIVE RStrip(_)
RStrip(s) == IF s = <<>> THEN <<>>
             ELSE IF IsSpace(s[Len(s)]) THEN RStrip(SubSeq(s, 1, Len(s) - 1)) ELSE s

\* str.strip()
Strip(s) == RStrip(LStrip(s))

\* sep.join(parts)
RECURSIVE Join(_, _)
Join(parts, sep) ==
    IF parts = <<>> THEN <<>>
    ELSE IF Len(parts) = 1 THEN parts[1]
    ELSE parts[1] \o sep \o Join(Tail(parts), sep)

\* membership in the character class of a pattern: \s or [^\x00-\x7F]
InClass(class, c) == IF class = "\\s" THEN IsSpace(c) ELSE IsNonAscii(c)

\* re.sub(<class>+, ' ', s): every maximal run of characters of the class
\* becomes one space.  inRun says the previous character was in the class.
RECURSIVE SubRuns(_, _, _)
SubRuns(s, class, inRun) ==
    IF s = <<>> THEN <<>>
    ELSE IF InClass(class, Head(s))
         THEN (IF inRun THEN <<>> ELSE <<32>>) \o SubRuns(Tail(s), class, TRUE)
         ELSE <<Head(s)>> \o SubRuns(Tail(s), class, FALSE)

\* re.sub(r'[^\x00-\x7F]+', ' ', raw_ocr)
SubNonAscii(s) == SubRuns(s, "[^\\x00-\\x7F]", FALSE)

\* re.sub(r'\s+', ' ', cleaned_ocr)
SubWhitespace(s) == SubRuns(s, "\\s", FALSE)

(***************************************************************************)
(* Results of calls that may raise: ok with a value, or raised with the    *)
(* message str(e) of the exception.                                        *)
(***************************************************************************)
Ok(v) == [ok |-> TRUE, value |-> v]
Raise(m) == [ok |-> FALSE, msg |-> m]

(***************************************************************************)
(* VideoIntelligenceService.extract_data                                   *)
(* An annotation response is [annotation_results |-> <<annotations...>>];  *)
(* annotations = [speech_transcriptions |-> <<[alternatives |-> <<text>>]>>,*)
(*   text_annotations |-> <<text>>,                                        *)
(*   segment_label_annotations |-> <<[segments |-> <<end offset>>]>>].     *)
(***************************************************************************)
\* lines 134-146: the best alternative of every segment that has one
RECURSIVE TranscriptParts(_)
TranscriptParts(speech) ==
    IF speech = <<>> THEN <<>>
    ELSE (IF Head(speech).alternatives # <<>>
          THEN <<Head(speech).alternatives[1]>> ELSE <<>>)
         \o TranscriptParts(Tail(speech))

\* an OCR fallback text whose runs of whitespace are left as they are
CleanedOcrUncollapsed(texts) == Strip(SubNonAscii(Join(texts, <<32>>)))

\* lines 153-160: the OCR fallback text
CleanedOcr(texts) == Strip(SubWhitespace(SubNonAscii(Join(texts, <<32>>))))

\* lines 133-162
FullTranscript(annotations) ==
    LET spoken == Strip(Join(TranscriptParts(annotations.speech_transcriptions), <<32>>))
    IN  IF spoken = <<>> /\ annotations.text_annotations # <<>>
        THEN CleanedOcr(annotations.text_annotations)
        ELSE spoken

\* lines 172-181: duration; segments[-1] of an empty list raises IndexError
Duration(annotations) ==
    IF annotations.segment_label_annotations = <<>> THEN Ok(0)
    ELSE LET segs == annotations.segment_label_annotations[1].segments
         IN  IF segs = <<>> THEN Raise("list index out of range")
             ELSE Ok(segs[Len(segs)])

\* lines 127-129: the early return for a response without annotation results
NoAnnotationOutput == [transcript |-> <<>>, ocr_text |-> <<>>]

extract_data(analysis_result) ==
    IF analysis_result.annotation_results = <<>> THEN Ok(NoAnnotationOutput)
    ELSE LET annotations == analysis_result.annotation_results[1]
             d == Duration(annotations)
         IN  IF ~d.ok THEN Raise(d.msg)
             ELSE Ok([transcript |-> FullTranscript(annotations),
                      ocr_text |-> annotations.text_annotations,
                      video_metadata |-> [duration |-> d.value,
                                          platform |-> "youtube",
                                          source_uri |-> "gs://bucket/..."]])

(***************************************************************************)
(* Python dict helpers.                                                    *)
(***************************************************************************)
\* d.get(k, default)
Get(d, k, default) == IF k \in DOMAIN d THEN d[k] ELSE default

\* bounded lists over S
SeqsUpTo(S, n) == UNION {[1..k -> S] : k \in 0..n}

(***************************************************************************)
(* VideoAuditState: the keys annotated with operator.add are reduced by    *)
(* list concatenation, every other key is overwritten by the update.       *)
(***************************************************************************)
\* state.py lines 19 and 24
AdditiveKeys == {"compliance_results", "errors"}

\* a merge without reducers: every key is overwritten
MergedValueOverwriting(s, upd, k) == IF k \notin DOMAIN upd THEN s[k] ELSE upd[k]

\* the value key k has after update upd is applied to state s
MergedValue(s, upd, k) ==
    IF k \notin DOMAIN upd THEN s[k]
    ELSE IF k \in AdditiveKeys THEN Get(s, k, <<>>) \o upd[k]
    ELSE upd[k]

\* the state after a node's (or the caller's) output upd is applied
Merge(s, upd) == [k \in (DOMAIN s \cup DOMAIN upd) |-> MergedValue(s, upd, k)]

(***************************************************************************)
(* Node 1, index_video_node: what the node does with the outcome of its    *)
(* try block.                                                              *)
(***************************************************************************)
\* an except branch that reports the error and leaves the text fields unset
FailureOutputKeepsText(message) == [errors |-> <<message>>, final_status |-> "FAIL"]

\* lines 76-83: the except branch
FailureOutput(message) ==
    [errors |-> <<message>>, final_status |-> "FAIL",
     transcript |-> <<>>, ocr_text |-> <<>>]

\* A node either returns an output dict or lets an exception escape.
Returned(out) == [returned |-> TRUE, out |-> out]
Escaped(message) == [returned |-> FALSE, msg |-> message]

\* an Indexer without its except branch
IndexerResultUncaught(tried) ==
    IF tried.ok THEN Returned(tried.value) ELSE Escaped(tried.msg)

\* lines 49-83: tried is the result of the try block, Ok(clean_data) or
\* Raise(message); `except Exception` turns every raise into FailureOutput.
IndexerResult(tried) ==
    IF tried.ok THEN Returned(tried.value) ELSE Returned(FailureOutput(tried.msg))

\* lines 54-57: the URL test; `in` on None raises TypeError
IsYouTubeUrl(url) == url \in {"https://youtu.be/v1", "https://www.youtube.com/watch?v=v2"}

UrlCheck(url) ==
    IF url = "None" THEN Raise("argument of type 'NoneType' is not iterable")
    ELSE IF IsYouTubeUrl(url) THEN Ok(url)
    ELSE Raise("Please provide a valid YouTube URL for this test.")

(***************************************************************************)
(* Node 2, audit_content_node.                                             *)
(* The model's answer (response.content) is a sequence of tokens:          *)
(*   [t |-> "fence"]            three backticks                            *)
(*   [t |-> "tag", v |-> w]     a word right after a fence ("json", ...)   *)
(*   [t |-> "ws"]               whitespace                                 *)
(*   [t |-> "prose"]            text that is not JSON                      *)
(*   [t |-> "json", v |-> j]    the text of one JSON value j               *)
(*   [t |-> "json_head", v |-> j], [t |-> "json_tail", v |-> j]            *)
(*                              the text of a JSON value j one of whose    *)
(*                              strings holds three backticks: the part    *)
(*                              before them and the part after them        *)
(* A JSON value is [kind |-> "object", obj |-> dict] or [kind |-> "array"].*)
(***************************************************************************)
Fence == [t |-> "fence"]
Tag(w) == [t |-> "tag", v |-> w]
Ws == [t |-> "ws"]
Prose == [t |-> "prose"]
JsonText(j) == [t |-> "json", v |-> j]
JsonHead(j) == [t |-> "json_head", v |-> j]
JsonTail(j) == [t |-> "json_tail", v |-> j]

FencePositions(content) == {i \in 1..Len(content) : content[i].t = "fence"}

Min(S) == CHOOSE x \in S : \A y \in S : x <= y

\* line 182: re.search(r"```(?:json)?(.*?)```", content, re.DOTALL).  The
\* leftmost match opens at the first fence and, the group being lazy,
\* closes at the next one; a "json" tag right after the opening fence is
\* not part of the group.  Ok(group 1), or Raise when nothing matches.
FenceSearch(content) ==
    LET fences == FencePositions(content)
    IN  IF Cardinality(fences) < 2 THEN Raise("no match")
        ELSE LET open == Min(fences)
                 close == Min(fences \ {open})
                 next == content[open + 1]
                 from == IF next.t = "tag" /\ next.v = "json"
                         THEN open + 2 ELSE open + 1
             IN  Ok(SubSeq(content, from, close - 1))

\* lines 179-184
CleanMarkdown(content) ==
    IF FencePositions(content) # {}
    THEN (IF FenceSearch(content).ok THEN FenceSearch(content).value ELSE content)
    ELSE content

RECURSIVE LStripWs(_)
LStripWs(c) == IF c = <<>> THEN <<>>
               ELSE IF Head(c).t = "ws" THEN LStripWs(Tail(c)) ELSE c

RECURSIVE RStripWs(_)
RStripWs(c) == IF c = <<>> THEN <<>>
               ELSE IF c[Len(c)].t = "ws" THEN RStripWs(SubSeq(c, 1, Len(c) - 1)) ELSE c

\* line 186: json.loads(content.strip()).  A text that stops inside a
\* string of the JSON value is an unterminated string.
JsonLoads(content) ==
    LET text == RStripWs(LStripWs(content))
    IN  IF text = <<>> \/ text[1].t \notin {"json", "json_head"}
        THEN Raise("Expecting value: line 1 column 1 (char 0)")
        ELSE IF text[1].t = "json"
        THEN (IF Len(text) > 1 THEN Raise("Extra data") ELSE Ok(text[1].v))
        ELSE IF Len(text) < 3 \/ text[2].t # "fence" \/ text[3].t # "json_tail"
        THEN Raise("Unterminated string")
        ELSE IF Len(text) > 3 THEN Raise("Extra data")
        ELSE Ok(text[1].v)

\* the status read from the key the state uses instead of the key the
\* prompt asks for
AuditOutputWrongKey(audit_data) ==
    [compliance_results |-> Get(audit_data, "compliance_results", <<>>),
     final_status |-> Get(audit_data, "final_status", "FAIL"),
     final_report |-> Get(audit_data, "final_report", "No report generated.")]

\* lines 188-192
AuditOutput(audit_data) ==
    [compliance_results |-> Get(audit_data, "compliance_results", <<>>),
     final_status |-> Get(audit_data, "status", "FAIL"),
     final_report |-> Get(audit_data, "final_report", "No report generated.")]

\* an except branch that also reports the failure as the final report
AuditFailureOutputWithReport(message) ==
    [errors |-> <<message>>, final_status |-> "FAIL", final_report |-> message]

\* lines 194-200: the except branch
AuditFailureOutput(message) == [errors |-> <<message>>, final_status |-> "FAIL"]

\* a short circuit that reports the skip and leaves final_status alone
SkippedOutputWithoutStatus ==
    [final_report |-> "Audit skipped because video processing failed (No Transcript)."]

\* lines 94-99: the short circuit on an empty transcript
SkippedOutput ==
    [final_status |-> "FAIL",
     final_report |-> "Audit skipped because video processing failed (No Transcript)."]

\* lines 178-192: from the model's answer to the node's output; .get on a
\* JSON value that is not an object raises AttributeError
ParseAnswer(content) ==
    LET loaded == JsonLoads(CleanMarkdown(content))
    IN  IF ~loaded.ok THEN Raise(loaded.msg)
        ELSE IF loaded.value.kind # "object"
        THEN Raise("'list' object has no attribute 'get'")
        ELSE Ok(AuditOutput(loaded.value.obj))

\* lines 172-200: the try block around the model call and the parsing
TryInference(llm) ==
    IF ~llm.ok THEN Returned(AuditFailureOutput(llm.msg))
    ELSE IF ~ParseAnswer(llm.value).ok
    THEN Returned(AuditFailureOutput(ParseAnswer(llm.value).msg))
    ELSE Returned(ParseAnswer(llm.value).value)

\* line 125: f"{transcript} {' '.join(ocr_text)}"
QueryText(transcript, ocr_text) == transcript \o <<32>> \o Join(ocr_text, <<32>>)

\* line 134
FallbackQuery == "General Brand Safety Guidelines Compliance Rules"

RetrieverCall(kind, query) == [svc |-> "retriever", kind |-> kind, query |-> query]
LlmCall(docs) == [svc |-> "llm", rules |-> docs]

\* an inference that invokes the model a second time after a failed
\* invocation or an unparseable answer
RetrieveRetrying(state, transcript, env) ==
    LET q1 == RetrieverCall("primary", QueryText(transcript, Get(state, "ocr_text", <<>>)))
        q2 == RetrieverCall("fallback", FallbackQuery)
        asked(docs) == IF "errors" \in DOMAIN TryInference(env.llm).out
                       THEN <<LlmCall(docs), LlmCall(docs)>>
                       ELSE <<LlmCall(docs)>>
    IN  IF ~env.primary.ok
        THEN [res |-> Escaped(env.primary.msg), calls |-> <<q1>>]
        ELSE IF env.primary.value # <<>>
        THEN [res |-> TryInference(env.llm),
              calls |-> <<q1>> \o asked(env.primary.value)]
        ELSE IF ~env.fallback.ok
        THEN [res |-> Escaped(env.fallback.msg), calls |-> <<q1, q2>>]
        ELSE [res |-> TryInference(env.llm),
              calls |-> <<q1, q2>> \o asked(env.fallback.value)]

\* a retrieval that goes on to the model with whatever the primary query
\* found, without the fallback query
RetrieveWithoutFallback(state, transcript, env) ==
    LET q1 == RetrieverCall("primary", QueryText(transcript, Get(state, "ocr_text", <<>>)))
    IN  IF ~env.primary.ok
        THEN [res |-> Escaped(env.primary.msg), calls |-> <<q1>>]
        ELSE [res |-> TryInference(env.llm),
              calls |-> <<q1, LlmCall(env.primary.value)>>]

\* lines 123-200, entered with a non-empty transcript and both clients
\* built.  env gives what each external call answers; the result is what
\* the node does (res) and the external calls it made, in order (calls).
Retrieve(state, transcript, env) ==
    LET q1 == RetrieverCall("primary", QueryText(transcript, Get(state, "ocr_text", <<>>)))
        q2 == RetrieverCall("fallback", FallbackQuery)
    IN  IF ~env.primary.ok
        THEN [res |-> Escaped(env.primary.msg), calls |-> <<q1>>]
        ELSE IF env.primary.value # <<>>
        THEN [res |-> TryInference(env.llm),
              calls |-> <<q1, LlmCall(env.primary.value)>>]
        ELSE IF ~env.fallback.ok
        THEN [res |-> Escaped(env.fallback.msg), calls |-> <<q1, q2>>]
        ELSE [res |-> TryInference(env.llm),
              calls |-> <<q1, q2, LlmCall(env.fallback.value)>>]

\* the Auditor's short circuit taken on the upstream status instead of on
\* the transcript
audit_content_node_trusting_status(state, env) ==
    IF Get(state, "final_status", "") = "FAIL"
    THEN [res |-> Returned(SkippedOutput), calls |-> <<>>]
    ELSE IF ~env.llm_init.ok THEN [res |-> Escaped(env.llm_init.msg), calls |-> <<>>]
    ELSE IF ~env.retriever_init.ok
    THEN [res |-> Escaped(env.retriever_init.msg), calls |-> <<>>]
    ELSE Retrieve(state, Get(state, "transcript", <<>>), env)

\* lines 86-200
audit_content_node(state, env) ==
    LET transcript == Get(state, "transcript", <<>>)
    IN  IF transcript = <<>> THEN [res |-> Returned(SkippedOutput), calls |-> <<>>]
        ELSE IF ~env.llm_init.ok THEN [res |-> Escaped(env.llm_init.msg), calls |-> <<>>]
        ELSE IF ~env.retriever_init.ok
        THEN [res |-> Escaped(env.retriever_init.msg), calls |-> <<>>]
        ELSE Retrieve(state, transcript, env)

(***************************************************************************)
(* The /audit endpoint (server.py).                                        *)
(***************************************************************************)
\* a uuid4 is modelled by its first eight hex digits and the rest
SessionIds == {"aaaaaaaa-1", "aaaaaaaa-2", "bbbbbbbb-1"}

\* line 59: f"vid_{session_id[:8]}"
VideoIdShort(session_id) ==
    IF session_id = "bbbbbbbb-1" THEN "vid_bbbbbbbb" ELSE "vid_aaaaaaaa"

\* lines 64-69
ApiInputs(video_url, session_id) ==
    [video_url |-> video_url, video_id |-> VideoIdShort(session_id),
     compliance_results |-> <<>>, errors |-> <<>>]

\* lines 38-41: the fields a ComplianceIssue of the response must have
IssueFields == {"category", "severity", "description"}

ValidIssue(issue) == IssueFields \subseteq DOMAIN issue

\* pydantic keeps the declared fields of each entry and drops the others
ToIssueModel(issue) == [k \in IssueFields |-> issue[k]]

\* lines 76-82: AuditResponse(...) validates its arguments
BuildResponse(session_id, final_state) ==
    LET results == Get(final_state, "compliance_results", <<>>)
    IN  IF "video_id" \notin DOMAIN final_state
        THEN Raise("1 validation error for AuditResponse: video_id")
        ELSE IF \E i \in 1..Len(results) : ~ValidIssue(results[i])
        THEN Raise("1 validation error for AuditResponse: compliance_results")
        ELSE Ok([session_id |-> session_id,
                 video_id |-> final_state.video_id,
                 status |-> Get(final_state, "final_status", "UNKNOWN"),
                 final_report |-> Get(final_state, "final_report", "No report generated."),
                 compliance_results |-> [i \in 1..Len(results) |-> ToIssueModel(results[i])]])

HttpError(message) ==
    [kind |-> "http_error", status_code |-> 500,
     detail |-> [prefix |-> "Workflow Failed: ", e |-> message]]

\* a handler whose try block ends before the response is built
HandlerOutcomeUnguardedBuild(session_id, invoked) ==
    IF ~invoked.ok THEN HttpError(invoked.msg)
    ELSE IF ~BuildResponse(session_id, invoked.value).ok
    THEN [kind |-> "unhandled", msg |-> BuildResponse(session_id, invoked.value).msg]
    ELSE [kind |-> "response", body |-> BuildResponse(session_id, invoked.value).value]

\* lines 71-86: invoked is what compliance_graph.invoke did, Ok(final
\* state) or Raise(message)
HandlerOutcome(session_id, invoked) ==
    IF ~invoked.ok THEN HttpError(invoked.msg)
    ELSE IF ~BuildResponse(session_id, invoked.value).ok
    THEN HttpError(BuildResponse(session_id, invoked.value).msg)
    ELSE [kind |-> "response", body |-> BuildResponse(session_id, invoked.value).value]

\* a caller of the graph itself (main.py lines 72-107 catches and logs)
DirectOutcome(invoked) ==
    IF invoked.ok THEN [kind |-> "final_state", state |-> invoked.value]
    ELSE [kind |-> "exception", msg |-> invoked.msg]

(***************************************************************************)
(* The graph: START -> indexer -> auditor -> END.                          *)
(***************************************************************************)
EntryNode == "indexer"

Successor(n) == IF n = "indexer" THEN "auditor" ELSE "END"

(***************************************************************************)
(* The inputs and the answers of the external services that the model      *)
(* ranges over.                                                            *)
(***************************************************************************)
YouTubeUrls == {"https://youtu.be/v1", "https://www.youtube.com/watch?v=v2"}
OtherUrl == "https://example.com/clip.mp4"

\* "no", and a blank alternative
AltTexts == {<<110, 111>>, <<32>>}
Segments == {[alternatives |-> <<>>]} \cup {[alternatives |-> <<t>>] : t \in AltTexts}
\* "X", and é, space, tab, "Y", no-break space
OcrTexts == {<<88>>, <<233, 32, 9, 89, 160>>}
LabelAnnotations == {<<>>, <<[segments |-> <<>>]>>, <<[segments |-> <<3, 7>>]>>}

Annotations ==
    [speech_transcriptions : SeqsUpTo(Segments, MaxSegments),
     text_annotations : SeqsUpTo(OcrTexts, MaxOcr),
     segment_label_annotations : LabelAnnotations]

AnnotateResponses ==
    {[annotation_results |-> <<>>]} \cup {[annotation_results |-> <<a>>] : a \in Annotations}

\* the annotation responses extract_data is applied to on its own: also
\* " no", a segment with two alternatives, a blank OCR text and "X", é,
\* space, "Y"
SpokenTexts == AltTexts \cup {<<32, 110, 111>>}
ShownTexts == OcrTexts \cup {<<32>>, <<88, 233, 32, 89>>}
ExtractInputs ==
    {[annotation_results |-> <<>>]}
    \cup {[annotation_results |-> <<a>>] :
            a \in [speech_transcriptions :
                     SeqsUpTo({[alternatives |-> <<>>],
                               [alternatives |-> <<<<110, 111>>, <<32, 110, 111>>>>]}
                              \cup {[alternatives |-> <<t>>] : t \in SpokenTexts},
                              MaxCallSegments),
                   text_annotations : SeqsUpTo(ShownTexts, MaxCallOcr),
                   segment_label_annotations : LabelAnnotations]}

IssueOk ==
    [category |-> "Claim Validation", severity |-> "CRITICAL",
     description |-> "unproven claim"]
IssueTimed ==
    [category |-> "Disclosure", severity |-> "WARNING",
     description |-> "missing #ad", timestamp |-> "00:07"]
IssueNoDescription == [category |-> "Claim Validation", severity |-> "CRITICAL"]
Issues == {IssueOk, IssueTimed, IssueNoDescription}

\* a key of a JSON object: absent, or present with value v
Absent == [has |-> FALSE]
Present(x) == [has |-> TRUE, v |-> x]
Opt(S) == {Absent} \cup {Present(x) : x \in S}

AnswerObject(status, results, report) ==
    [k \in ((IF status.has THEN {"status"} ELSE {})
            \cup (IF results.has THEN {"compliance_results"} ELSE {})
            \cup (IF report.has THEN {"final_report"} ELSE {}))
       |-> IF k = "status" THEN status.v
           ELSE IF k = "compliance_results" THEN results.v ELSE report.v]

JsonObject(obj) == [kind |-> "object", obj |-> obj]
JsonArray == [kind |-> "array"]

AnswerObjects ==
    {AnswerObject(s, c, f) : s \in Opt({"PASS", "FAIL"}),
                             c \in Opt(SeqsUpTo(Issues, MaxIssues)),
                             f \in Opt({"No violations found."})}

CleanAnswer ==
    JsonObject(AnswerObject(Present("PASS"), Present(<<>>), Present("No violations found.")))
FlaggedAnswer ==
    JsonObject(AnswerObject(Present("FAIL"), Present(<<IssueOk>>), Present("One violation.")))

\* ways the model wraps (or spoils) the JSON text j of its answer
Wrappings(j) ==
    {<<Fence, Tag("json"), Ws, JsonText(j), Ws, Fence>>,
     <<Fence, Ws, JsonText(j), Ws, Fence>>,
     <<Prose, Ws, Fence, Tag("json"), JsonText(j), Fence, Ws, Prose>>,
     <<Fence, Tag("javascript"), Ws, JsonText(j), Ws, Fence>>,
     <<Fence, Tag("json"), Ws, JsonText(j)>>,
     <<Prose, Ws, JsonText(j)>>,
     <<Ws, JsonText(j), Ws>>}

\* an answer whose report quotes three backticks (written out here as
\* [fence]), and its JSON text
QuotingAnswer ==
    JsonObject(AnswerObject(Present("PASS"), Present(<<>>),
                            Present("The caption shows [fence] on screen.")))
QuotingText == <<JsonHead(QuotingAnswer), Fence, JsonTail(QuotingAnswer)>>

\* that answer bare, and in a fence with and without the json tag
QuotingContents ==
    {QuotingText,
     <<Fence, Tag("json"), Ws>> \o QuotingText \o <<Ws, Fence>>,
     <<Fence, Ws>> \o QuotingText \o <<Ws, Fence>>}

AnswerContents ==
    {<<JsonText(JsonObject(o))>> : o \in AnswerObjects}
    \cup Wrappings(FlaggedAnswer)
    \cup QuotingContents
    \cup {<<JsonText(JsonArray)>>, <<>>}

DocLists == SeqsUpTo({"Rule: claims need proof."}, MaxDocs)

(***************************************************************************)
(* The environment.  In the world "any" one request is served and every    *)
(* external call may answer anything or fail.  In the world "fixed" two    *)
(* requests are served side by side and every external service is a        *)
(* function of what it is given that does not fail, so that a run's        *)
(* result can be compared with the result of the same run on its own.      *)
(***************************************************************************)
\* what the annotation service answers for a staged video
AnnotationOf(video) ==
    IF video = "https://youtu.be/v1"
    THEN [annotation_results |-> <<[speech_transcriptions |-> <<[alternatives |-> <<<<110, 111>>>>]>>,
                                     text_annotations |-> <<>>,
                                     segment_label_annotations |-> <<[segments |-> <<3, 7>>]>>]>>]
    ELSE [annotation_results |-> <<[speech_transcriptions |-> <<>>,
                                     text_annotations |-> <<<<88>>>>,
                                     segment_label_annotations |-> <<>>]>>]

ClientOutcomes(world) ==
    IF world = "fixed" THEN {Ok("client")}
    ELSE {Ok("client"), Raise("Your default credentials were not found.")}

DownloadOutcomes(world) ==
    IF world = "fixed" THEN {Ok("file")}
    ELSE {Ok("file"), Raise("YouTube Download Failed: HTTP Error 403: Forbidden")}

UploadOutcomes(world) ==
    IF world = "fixed" THEN {Ok("blob")}
    ELSE {Ok("blob"), Raise("GCS Upload Failed: 503 Service Unavailable")}

RemoveOutcomes(world) ==
    IF world = "fixed" THEN {Ok("removed")}
    ELSE {Ok("removed"), Raise("[Errno 13] Permission denied")}

AnnotateOutcomes(world, video) ==
    IF world = "fixed" THEN {Ok(AnnotationOf(video))}
    ELSE {Ok(a) : a \in AnnotateResponses} \cup {Raise("Timeout of 600.0s exceeded")}

\* the answer of a call the Auditor does not reach
NotCalled == Raise("not called")

AuditorEnv(llm_init, retriever_init, primary, fallback, llm) ==
    [llm_init |-> llm_init, retriever_init |-> retriever_init,
     primary |-> primary, fallback |-> fallback, llm |-> llm]

LlmOutcomes == {Ok(c) : c \in AnswerContents} \cup {Raise("429 Resource exhausted")}
FoundDocs == {Ok(d) : d \in DocLists \ {<<>>}}

\* every course the Auditor's external calls can take; a call that is not
\* reached has no answer
AuditorEnvs(world, transcript) ==
    IF transcript = <<>>
    THEN {AuditorEnv(NotCalled, NotCalled, NotCalled, NotCalled, NotCalled)}
    ELSE IF world = "fixed"
    THEN {AuditorEnv(Ok("client"), Ok("client"), Ok(<<"Rule: claims need proof.">>),
                     NotCalled,
                     Ok(<<JsonText(IF transcript = <<110, 111>> THEN CleanAnswer
                                   ELSE FlaggedAnswer)>>))}
    ELSE {AuditorEnv(Raise("Unable to find your project."),
                     NotCalled, NotCalled, NotCalled, NotCalled),
          AuditorEnv(Ok("client"), Raise("data_store_id is required"),
                     NotCalled, NotCalled, NotCalled),
          AuditorEnv(Ok("client"), Ok("client"),
                     Raise("403 Permission denied on data store"), NotCalled, NotCalled),
          AuditorEnv(Ok("client"), Ok("client"), Ok(<<>>),
                     Raise("503 Search unavailable"), NotCalled)}
         \cup {AuditorEnv(Ok("client"), Ok("client"), p, NotCalled, l) :
                 p \in FoundDocs, l \in LlmOutcomes}
         \cup {AuditorEnv(Ok("client"), Ok("client"), Ok(<<>>), Ok(f), l) :
                 f \in DocLists, l \in LlmOutcomes}
(***************************************************************************)
(* State.                                                                  *)
(***************************************************************************)
Runs == {1, 2}
VideoIds == {"vid_aaaaaaaa", "vid_bbbbbbbb", "vid_demo"}

VARIABLES
    world,     \* "any" or "fixed" (see above)
    caller,    \* per run: "idle", "api" (server.py) or "direct" (main.py)
    session,   \* per run: the session id the caller generated
    input,     \* per run: initial_inputs
    node,      \* per run: the node the graph is at; "END", or "RAISED"
    step,      \* per run: the Indexer's position inside its try block
    st,        \* per run: the graph's state (VideoAuditState)
    exc,       \* per run: the message of the exception that left the graph
    fs,        \* local files temp_<video_id>.mp4: the video held, or "absent"
    bucket,    \* staged objects videos/<video_id>.mp4: the video held, or "absent"
    idx,       \* per run: record of the Indexer's execution
    aud,       \* per run: record of the Auditor's execution
    visited,   \* per run: the nodes executed, in order
    result,    \* per run: what the caller ends with
    call       \* extract_data applied on its own: its argument and its result

vars == <<world, caller, session, input, node, step, st, exc, fs, bucket,
          idx, aud, visited, result, call>>

NotRun == [ran |-> FALSE]

InitWorld(w) ==
    /\ world = w
    /\ caller = [r \in Runs |-> "idle"]
    /\ session = [r \in Runs |-> "none"]
    /\ input = [r \in Runs |-> <<>>]
    /\ node = [r \in Runs |-> "START"]
    /\ step = [r \in Runs |-> "none"]
    /\ st = [r \in Runs |-> <<>>]
    /\ exc = [r \in Runs |-> "none"]
    /\ fs = [v \in VideoIds |-> "absent"]
    /\ bucket = [v \in VideoIds |-> "absent"]
    /\ idx = [r \in Runs |-> NotRun]
    /\ aud = [r \in Runs |-> NotRun]
    /\ visited = [r \in Runs |-> <<>>]
    /\ result = [r \in Runs |-> [kind |-> "none"]]

Init == InitWorld("any") /\ call = NotRun
InitConcurrent == InitWorld("fixed") /\ call = NotRun

\* no request is served; extract_data is about to be applied to an
\* annotation response
InitExtract ==
    /\ InitWorld("any")
    /\ call \in {[ran |-> FALSE, analysis_result |-> a] : a \in ExtractInputs}

\* compliance_graph.invoke(initial_inputs): the inputs are written to the
\* state and the entry node is scheduled
Invoke(r, who, sid, inputs) ==
    /\ caller[r] = "idle"
    /\ world = "any" => r = 1
    /\ caller' = [caller EXCEPT ![r] = who]
    /\ session' = [session EXCEPT ![r] = sid]
    /\ input' = [input EXCEPT ![r] = inputs]
    /\ st' = [st EXCEPT ![r] = Merge(<<>>, inputs)]
    /\ node' = [node EXCEPT ![r] = EntryNode]
    /\ step' = [step EXCEPT ![r] = "download"]
    /\ UNCHANGED <<world, call, exc, fs, bucket, idx, aud, visited, result>>

ApiUrls == IF world = "fixed" THEN YouTubeUrls ELSE {"https://youtu.be/v1", OtherUrl}

\* server.py lines 50-74: POST /audit
ApiRequest(r) ==
    \E url \in ApiUrls, sid \in SessionIds :
        /\ \A o \in Runs : session[o] # sid
        /\ Invoke(r, "api", sid, ApiInputs(url, sid))

\* what a direct caller may pass: main.py passes a URL, a video id and two
\* empty lists; the state schema also admits a missing URL or id and lists
\* that already hold entries
DirectInputs ==
    IF world = "fixed"
    THEN {[video_url |-> u, compliance_results |-> <<>>, errors |-> <<>>] @@ i :
             u \in YouTubeUrls, i \in {<<>>, [video_id |-> "vid_aaaaaaaa"]}}
    ELSE {u @@ i @@ l :
             u \in {<<>>, [video_url |-> "https://youtu.be/v1"], [video_url |-> OtherUrl]},
             i \in {<<>>, [video_id |-> "vid_aaaaaaaa"]},
             l \in {[compliance_results |-> <<>>, errors |-> <<>>],
                    [compliance_results |-> <<IssueTimed>>,
                     errors |-> <<"earlier failure">>]}}

\* main.py lines 49-75: app.invoke(initial_inputs)
DirectInvoke(r) ==
    \E inputs \in DirectInputs : Invoke(r, "direct", "none", inputs)

\* nodes.py lines 42-47
VideoUrl(r) == Get(st[r], "video_url", "None")
VideoIdInput(r) == Get(st[r], "video_id", "vid_demo")

\* The graph applies what a node did: its output is merged into the state
\* and the successor is scheduled, or its exception ends the run.
GraphApply(r, n, res) ==
    /\ visited' = [visited EXCEPT ![r] = Append(@, n)]
    /\ IF res.returned
       THEN /\ st' = [st EXCEPT ![r] = Merge(@, res.out)]
            /\ node' = [node EXCEPT ![r] = Successor(n)]
            /\ exc' = exc
       ELSE /\ st' = st
            /\ node' = [node EXCEPT ![r] = "RAISED"]
            /\ exc' = [exc EXCEPT ![r] = res.msg]

\* the Indexer's try block ends at step at, with tried = Ok(clean_data) or
\* Raise(message)
IndexerEnds(r, at, tried) ==
    /\ idx' = [idx EXCEPT ![r] = [ran |-> TRUE, before |-> st[r], at |-> at,
                                   tried |-> tried, res |-> IndexerResult(tried)]]
    /\ step' = [step EXCEPT ![r] = "none"]
    /\ GraphApply(r, "indexer", IndexerResult(tried))

InIndexer(r, at) == node[r] = "indexer" /\ step[r] = at

\* nodes.py lines 49-57, video_indexer.py lines 12-48: build the service,
\* test the URL, download.  yt-dlp leaves an existing output file as it is.
Download(r) ==
    /\ InIndexer(r, "download")
    /\ \E client \in ClientOutcomes(world), dl \in DownloadOutcomes(world) :
         LET tried == IF ~client.ok THEN client
                      ELSE IF ~UrlCheck(VideoUrl(r)).ok THEN UrlCheck(VideoUrl(r))
                      ELSE dl
         IN  IF tried.ok
             THEN /\ fs' = [fs EXCEPT ![VideoIdInput(r)] =
                                 IF @ = "absent" THEN VideoUrl(r) ELSE @]
                  /\ step' = [step EXCEPT ![r] = "upload"]
                  /\ UNCHANGED <<node, st, exc, idx, visited>>
             ELSE /\ fs' = fs
                  /\ IndexerEnds(r, "download", tried)
    /\ UNCHANGED <<world, call, caller, session, input, bucket, aud, result>>

\* nodes.py line 60, video_indexer.py lines 51-73
Upload(r) ==
    /\ InIndexer(r, "upload")
    /\ \E up \in UploadOutcomes(world) :
         LET tried == IF fs[VideoIdInput(r)] = "absent"
                      THEN Raise("GCS Upload Failed: [Errno 2] No such file or directory")
                      ELSE up
         IN  IF tried.ok
             THEN /\ bucket' = [bucket EXCEPT ![VideoIdInput(r)] = fs[VideoIdInput(r)]]
                  /\ step' = [step EXCEPT ![r] = "exists"]
                  /\ UNCHANGED <<node, st, exc, idx, visited>>
             ELSE /\ bucket' = bucket
                  /\ IndexerEnds(r, "upload", tried)
    /\ UNCHANGED <<world, call, caller, session, input, fs, aud, result>>

\* nodes.py line 64: os.path.exists(local_path)
CleanupCheck(r) ==
    /\ InIndexer(r, "exists")
    /\ step' = [step EXCEPT ![r] =
                   IF fs[VideoIdInput(r)] = "absent" THEN "annotate" ELSE "remove"]
    /\ UNCHANGED <<world, call, caller, session, input, node, st, exc, fs, bucket,
                   idx, aud, visited, result>>

\* nodes.py line 65: os.remove(local_path)
CleanupRemove(r) ==
    /\ InIndexer(r, "remove")
    /\ \E rm \in RemoveOutcomes(world) :
         LET tried == IF fs[VideoIdInput(r)] = "absent"
                      THEN Raise("[Errno 2] No such file or directory")
                      ELSE rm
         IN  IF tried.ok
             THEN /\ fs' = [fs EXCEPT ![VideoIdInput(r)] = "absent"]
                  /\ step' = [step EXCEPT ![r] = "annotate"]
                  /\ UNCHANGED <<node, st, exc, idx, visited>>
             ELSE /\ fs' = fs
                  /\ IndexerEnds(r, "remove", tried)
    /\ UNCHANGED <<world, call, caller, session, input, bucket, aud, result>>

\* nodes.py lines 67-74: annotate the staged object, extract, return
Annotate(r) ==
    /\ InIndexer(r, "annotate")
    /\ \E a \in AnnotateOutcomes(world, bucket[VideoIdInput(r)]) :
         IF a.ok THEN IndexerEnds(r, "extract", extract_data(a.value))
         ELSE IndexerEnds(r, "annotate", a)
    /\ UNCHANGED <<world, call, caller, session, input, fs, bucket, aud, result>>

\* nodes.py lines 86-200
Audit(r) ==
    /\ node[r] = "auditor"
    /\ \E env \in AuditorEnvs(world, Get(st[r], "transcript", <<>>)) :
         LET done == audit_content_node(st[r], env)
         IN  /\ aud' = [aud EXCEPT ![r] = [ran |-> TRUE, before |-> st[r], env |-> env,
                                            res |-> done.res, calls |-> done.calls]]
             /\ GraphApply(r, "auditor", done.res)
    /\ UNCHANGED <<world, call, caller, session, input, step, fs, bucket, idx, result>>

\* what compliance_graph.invoke did for the caller
Invoked(r) == IF node[r] = "END" THEN Ok(st[r]) ELSE Raise(exc[r])

\* server.py lines 76-86, main.py lines 77-107: the caller's end
Respond(r) ==
    /\ node[r] \in {"END", "RAISED"}
    /\ result[r].kind = "none"
    /\ result' = [result EXCEPT ![r] =
                     IF caller[r] = "api" THEN HandlerOutcome(session[r], Invoked(r))
                     ELSE DirectOutcome(Invoked(r))]
    /\ UNCHANGED <<world, call, caller, session, input, node, step, st, exc, fs, bucket,
                   idx, aud, visited>>

Next ==
    \E r \in Runs :
        \/ ApiRequest(r)
        \/ DirectInvoke(r)
        \/ Download(r)
        \/ Upload(r)
        \/ CleanupCheck(r)
        \/ CleanupRemove(r)
        \/ Annotate(r)
        \/ Audit(r)
        \/ Respond(r)

Spec == Init /\ [][Next]_vars

\* video_indexer.py lines 121-193: extract_data applied to its argument
Extract ==
    /\ ~call.ran
    /\ "analysis_result" \in DOMAIN call
    /\ call' = [ran |-> TRUE, analysis_result |-> call.analysis_result,
                tried |-> extract_data(call.analysis_result)]
    /\ UNCHANGED <<world, caller, session, input, node, step, st, exc, fs, bucket,
                   idx, aud, visited, result>>

SpecExtract == InitExtract /\ [][Extract]_vars

SpecConcurrent == InitConcurrent /\ [][Next]_vars

(***************************************************************************)
(* Properties.                                                             *)
(***************************************************************************)
Active(r) == caller[r] # "idle"

IsPrefix(a, b) == Len(a) <= Len(b) /\ SubSeq(b, 1, Len(a)) = a

Has(d, k) == k \in DOMAIN d

\* C1: whenever a step of the Indexer's try block raises, the node returns
\* an output with final_status FAIL, an empty transcript, an empty ocr_text
\* and errors holding exactly the message of that exception.
C1_FailingExtractionOutput ==
    \A r \in Runs :
        (idx[r].ran /\ ~idx[r].tried.ok) =>
            /\ idx[r].res.returned
            /\ LET out == idx[r].res.out
               IN  /\ Has(out, "final_status") /\ out.final_status = "FAIL"
                   /\ Has(out, "transcript") /\ out.transcript = <<>>
                   /\ Has(out, "ocr_text") /\ out.ocr_text = <<>>
                   /\ Has(out, "errors") /\ out.errors = <<idx[r].tried.msg>>

\* C1 witness: extract_data itself raised (the last step of the try block)
C1_Witness ==
    \E r \in Runs : idx[r].ran /\ ~idx[r].tried.ok /\ idx[r].at = "extract"

\* C2: no exception leaves a node: whenever a node has run it has returned
\* an output, every failure of one of its external calls shows as an errors
\* entry with final_status FAIL, and the graph run never ends by raising.
C2_EveryFailureCaught ==
    \A r \in Runs :
        /\ idx[r].ran => idx[r].res.returned
        /\ aud[r].ran =>
              /\ aud[r].res.returned
              /\ (\E c \in {"llm_init", "retriever_init", "primary", "fallback", "llm"} :
                      ~aud[r].env[c].ok /\ aud[r].env[c] # NotCalled)
                   => /\ Has(aud[r].res.out, "errors") /\ aud[r].res.out.errors # <<>>
                      /\ aud[r].res.out.final_status = "FAIL"
        /\ node[r] # "RAISED"

\* the state without key k
Without(d, k) == [j \in DOMAIN d \ {k} |-> d[j]]

\* the Auditor's answer on state when every call it could make would answer
SkipsAllCalls(state) ==
    \A env \in AuditorEnvs("any", <<110, 111>>) :
        LET done == audit_content_node(state, env)
        IN  /\ done.calls = <<>>
            /\ done.res.returned
            /\ done.res.out.final_status = "FAIL"
            /\ Has(done.res.out, "final_report")

\* C3: entered with an empty transcript, or with none, the Auditor calls
\* neither the retriever nor the model and returns final_status FAIL with
\* a final_report, whatever final_status and errors the Indexer left.
C3_EmptyTranscriptSkipsCalls ==
    \A r \in Runs :
        /\ (aud[r].ran /\ Get(aud[r].before, "transcript", <<>>) = <<>>) =>
              /\ aud[r].calls = <<>>
              /\ aud[r].res.returned
              /\ aud[r].res.out.final_status = "FAIL"
              /\ Has(aud[r].res.out, "final_report")
              /\ aud[r].res.out.final_report
                   = "Audit skipped because video processing failed (No Transcript)."
        /\ node[r] = "auditor" =>
              /\ SkipsAllCalls(Without(st[r], "transcript"))
              /\ SkipsAllCalls([st[r] EXCEPT !.transcript = <<>>])

\* C3 witness: the Auditor ran on an empty transcript that the Indexer
\* left without an error and without a status
C3_Witness ==
    \E r \in Runs :
        /\ aud[r].ran
        /\ aud[r].before.transcript = <<>>
        /\ ~Has(aud[r].before, "final_status")
        /\ aud[r].before.errors = <<>>

\* after is before with out merged in: the two additive lists are before's
\* followed by out's, every other key holds out's value if out wrote it and
\* before's value otherwise
MergedAs(before, out, after) ==
    /\ DOMAIN after = DOMAIN before \cup DOMAIN out
    /\ \A k \in DOMAIN after :
          IF k \in {"compliance_results", "errors"}
          THEN /\ IsPrefix(Get(before, k, <<>>), after[k])
               /\ after[k] = Get(before, k, <<>>) \o Get(out, k, <<>>)
          ELSE after[k] = (IF Has(out, k) THEN out[k] ELSE before[k])

\* C4: compliance_results and errors only grow: the lists supplied
\* initially and the lists before each node are prefixes of the lists
\* after it, and each node's output is merged additively for these two keys
\* and by overwriting for every other key.
C4_ListsOnlyGrow ==
    \A r \in Runs :
        Active(r) =>
            /\ \A k \in {"compliance_results", "errors"} :
                  /\ IsPrefix(input[r][k], st[r][k])
                  /\ idx[r].ran => /\ IsPrefix(input[r][k], idx[r].before[k])
                                   /\ IsPrefix(idx[r].before[k], st[r][k])
                  /\ aud[r].ran => /\ IsPrefix(idx[r].before[k], aud[r].before[k])
                                   /\ IsPrefix(aud[r].before[k], st[r][k])
            /\ (idx[r].ran /\ idx[r].res.returned) =>
                  IF aud[r].ran THEN MergedAs(idx[r].before, idx[r].res.out, aud[r].before)
                  ELSE MergedAs(idx[r].before, idx[r].res.out, st[r])
            /\ (aud[r].ran /\ aud[r].res.returned) =>
                  MergedAs(aud[r].before, aud[r].res.out, st[r])

\* C4 witness: a finished run whose lists hold the entries supplied
\* initially followed by entries a node produced
C4_Witness ==
    \E r \in Runs :
        /\ node[r] = "END"
        /\ input[r].compliance_results # <<>>
        /\ Len(st[r].compliance_results) > Len(input[r].compliance_results)
        /\ Len(st[r].errors) = Len(input[r].errors)

\* the two shapes of the contract of the Indexer
SuccessShape(out) == {"transcript", "ocr_text", "video_metadata"} \subseteq DOMAIN out
FailureShape(out) ==
    /\ Has(out, "errors") /\ out.errors # <<>>
    /\ Has(out, "final_status") /\ out.final_status = "FAIL"

\* C5: every output of the Indexer has the success shape (transcript,
\* ocr_text and video_metadata) or the failure shape (a non-empty errors
\* list and final_status FAIL).
C5_TwoOutputShapes ==
    \A r \in Runs :
        idx[r].ran =>
            /\ idx[r].res.returned
            /\ SuccessShape(idx[r].res.out) \/ FailureShape(idx[r].res.out)

\* C6: the nodes run in the order Indexer, Auditor, each once: the Auditor
\* runs on the state holding the Indexer's merged output, and a run that
\* has ended has run both, also when the Indexer failed.
C6_IndexerThenAuditorOnce ==
    \A r \in Runs :
        /\ visited[r] \in {<<>>, <<"indexer">>, <<"indexer", "auditor">>}
        /\ (idx[r].ran <=> Len(visited[r]) >= 1)
        /\ (aud[r].ran <=> Len(visited[r]) = 2)
        /\ aud[r].ran => /\ idx[r].ran /\ idx[r].res.returned
                         /\ aud[r].before = Merge(idx[r].before, idx[r].res.out)
        /\ node[r] \in {"END", "RAISED"} => visited[r] = <<"indexer", "auditor">>
        /\ (idx[r].ran /\ node[r] # "auditor") => aud[r].ran

\* C6 witness: the Auditor ran after an Indexer whose try block raised
C6_Witness ==
    \E r \in Runs : aud[r].ran /\ ~idx[r].tried.ok /\ node[r] = "END"

\* the Auditor of run r called the model
ModelCalled(r) == aud[r].ran /\ \E i \in 1..Len(aud[r].calls) : aud[r].calls[i].svc = "llm"

\* what json.loads made of the model's answer in run r, once unfenced
Loaded(r) == JsonLoads(CleanMarkdown(aud[r].env.llm.value))

\* the model call of run r raised, or its answer is not parseable JSON
InferenceFailed(r) == ModelCalled(r) /\ (~aud[r].env.llm.ok \/ ~Loaded(r).ok)

InferenceFailureMessage(r) ==
    IF ~aud[r].env.llm.ok THEN aud[r].env.llm.msg ELSE Loaded(r).msg

\* C7: when the model call raises or its answer is not parseable JSON, the
\* Auditor returns exactly errors = [message] and final_status = FAIL; it
\* writes neither compliance_results nor final_report, and the state's
\* compliance_results stay as they were.
C7_InferenceFailureOutput ==
    \A r \in Runs :
        InferenceFailed(r) =>
            /\ aud[r].res.returned
            /\ LET out == aud[r].res.out
               IN  /\ Has(out, "errors") /\ out.errors = <<InferenceFailureMessage(r)>>
                   /\ Has(out, "final_status") /\ out.final_status = "FAIL"
                   /\ ~Has(out, "compliance_results")
                   /\ ~Has(out, "final_report")
            /\ node[r] = "END"
            /\ st[r].compliance_results = aud[r].before.compliance_results
            /\ ~Has(st[r], "final_report")
            /\ st[r].final_status = "FAIL"
            /\ st[r].errors = aud[r].before.errors \o <<InferenceFailureMessage(r)>>

\* C7 witness: an answer that is not parseable, in a run whose state
\* already held a compliance result
C7_Witness ==
    \E r \in Runs :
        /\ InferenceFailed(r) /\ aud[r].env.llm.ok
        /\ aud[r].before.compliance_results # <<>>
        /\ node[r] = "END"

\* the model of run r answered a JSON object with a status and with
\* compliance_results, after an extraction with a non-empty transcript
ValidAnswer(r) ==
    /\ ModelCalled(r)
    /\ aud[r].before.transcript # <<>>
    /\ aud[r].env.llm.ok
    /\ Loaded(r).ok
    /\ Loaded(r).value.kind = "object"
    /\ Has(Loaded(r).value.obj, "status")
    /\ Has(Loaded(r).value.obj, "compliance_results")

AnsweredStatus(r) == Loaded(r).value.obj.status
AnsweredResults(r) == Loaded(r).value.obj.compliance_results

FinalStateCarriesAnswer(r) ==
    /\ node[r] = "END"
    /\ st[r].final_status = AnsweredStatus(r)
    /\ st[r].compliance_results = input[r].compliance_results \o AnsweredResults(r)

Responded(r) == caller[r] = "api" /\ result[r].kind # "none"

\* C8 as stated: after a valid answer with status S and results R, the
\* final state and the /audit response carry S and the initial list
\* followed by R.
C8_ResponseCarriesAnswer ==
    \A r \in Runs :
        ValidAnswer(r) =>
            /\ FinalStateCarriesAnswer(r)
            /\ Responded(r) =>
                  /\ result[r].kind = "response"
                  /\ result[r].body.status = AnsweredStatus(r)
                  /\ result[r].body.compliance_results
                       = input[r].compliance_results \o AnsweredResults(r)

\* an entry as the response shows it
Shown(issue) ==
    [category |-> issue.category, severity |-> issue.severity,
     description |-> issue.description]

\* C8 as amended: after a valid answer with status S and results R, the
\* final state carries S and the initial list followed by R; the /audit
\* response carries S and the entries of R, each reduced to category,
\* severity and description, when every entry of R has these three fields,
\* and is an HTTP 500 error otherwise.
C8_ResponseCarriesShownAnswer ==
    \A r \in Runs :
        ValidAnswer(r) =>
            /\ FinalStateCarriesAnswer(r)
            /\ Responded(r) =>
                  LET R == AnsweredResults(r)
                  IN  IF \A i \in 1..Len(R) :
                            {"category", "severity", "description"} \subseteq DOMAIN R[i]
                      THEN /\ result[r].kind = "response"
                           /\ result[r].body.status = AnsweredStatus(r)
                           /\ result[r].body.compliance_results
                                = [i \in 1..Len(R) |-> Shown(R[i])]
                      ELSE /\ result[r].kind = "http_error"
                           /\ result[r].status_code = 500

\* C8 witness: one speech segment "no", an answer of PASS with no results,
\* and a response of PASS with no results
C8_Witness ==
    \E r \in Runs :
        /\ ValidAnswer(r) /\ Responded(r)
        /\ aud[r].before.transcript = <<110, 111>>
        /\ AnsweredStatus(r) = "PASS" /\ AnsweredResults(r) = <<>>
        /\ result[r].kind = "response"
        /\ result[r].body.status = "PASS"
        /\ result[r].body.compliance_results = <<>>

\* what a finished /audit request of run r ended with
OneOutcome(r) ==
    /\ result[r].kind \in {"response", "http_error"}
    /\ result[r].kind = "http_error" => result[r].status_code = 500
    /\ node[r] = "RAISED" =>
          /\ result[r].kind = "http_error"
          /\ result[r].detail.e = exc[r]
    /\ (node[r] = "END" /\ \E i \in 1..Len(st[r].compliance_results) :
            ~({"category", "severity", "description"}
                \subseteq DOMAIN st[r].compliance_results[i])) =>
          result[r].kind = "http_error"
    /\ result[r].kind = "response" =>
          /\ node[r] = "END"
          /\ DOMAIN result[r].body
               = {"session_id", "video_id", "status", "final_report", "compliance_results"}
          /\ result[r].body.session_id = session[r]
          /\ result[r].body.video_id = st[r].video_id
          /\ result[r].body.status = st[r].final_status
          /\ result[r].body.final_report
               = (IF Has(st[r], "final_report") THEN st[r].final_report
                  ELSE "No report generated.")
          /\ Len(result[r].body.compliance_results) = Len(st[r].compliance_results)

\* C9: at /audit an exception of the graph or of the building of the
\* response becomes an HTTP 500 error; a request ends with one complete
\* AuditResponse built from the final state or with one error, and its
\* outcome, once given, does not change.
C9_OneResponseOrError ==
    /\ [](\A r \in Runs : Responded(r) => OneOutcome(r))
    /\ [][\A r \in Runs : result[r].kind # "none" => result'[r] = result[r]]_vars

\* C9 witness: the graph returned a final state and the building of the
\* response raised
C9_Witness ==
    \E r \in Runs : Responded(r) /\ node[r] = "END" /\ result[r].kind = "http_error"

\* the final state of a run with these inputs served on its own, in the
\* world whose services are functions of what they are given
AloneFinal(inputs) ==
    LET s0 == Merge(<<>>, inputs)
        url == Get(s0, "video_url", "None")
        tried == IF ~UrlCheck(url).ok THEN UrlCheck(url)
                 ELSE extract_data(AnnotationOf(url))
        s1 == Merge(s0, IndexerResult(tried).out)
        env == CHOOSE e \in AuditorEnvs("fixed", s1.transcript) : TRUE
    IN  Merge(s1, audit_content_node(s1, env).res.out)

\* C10: two runs served side by side each end in the final state they
\* reach when served alone.
C10_RunsIndependent ==
    \A r \in Runs :
        /\ node[r] # "RAISED"
        /\ node[r] = "END" => st[r] = AloneFinal(input[r])

\* where in the calls of the Auditor of run r the retriever, the fallback
\* query and the model come
RetrieverCallsAt(r) == {i \in 1..Len(aud[r].calls) : aud[r].calls[i].svc = "retriever"}
FallbackCallsAt(r) == {i \in RetrieverCallsAt(r) : aud[r].calls[i].kind = "fallback"}
ModelCallsAt(r) == {i \in 1..Len(aud[r].calls) : aud[r].calls[i].svc = "llm"}

\* C11: in an Auditor run with a non-empty transcript the first call is the
\* retriever with the transcript, a space and the space-joined OCR text;
\* when it returns no document the fixed fallback query is issued exactly
\* once, right after it and before the model, and the model call follows
\* the fallback also when the fallback returns no document; when the
\* primary query returns a document the fallback query is never issued;
\* the retriever is called at most twice.
C11_FallbackQueryOnce ==
    \A r \in Runs :
        (aud[r].ran /\ Get(aud[r].before, "transcript", <<>>) # <<>>) =>
            /\ Cardinality(RetrieverCallsAt(r)) <= 2
            /\ aud[r].calls # <<>> =>
                  /\ aud[r].calls[1].svc = "retriever"
                  /\ aud[r].calls[1].kind = "primary"
                  /\ aud[r].calls[1].query
                       = aud[r].before.transcript \o <<32>>
                           \o Join(Get(aud[r].before, "ocr_text", <<>>), <<32>>)
            /\ (aud[r].env.primary.ok /\ aud[r].env.primary.value = <<>>) =>
                  /\ FallbackCallsAt(r) = {2}
                  /\ aud[r].calls[2].query
                       = "General Brand Safety Guidelines Compliance Rules"
                  /\ \A m \in ModelCallsAt(r) : m > 2
                  /\ aud[r].env.fallback.ok =>
                        /\ ModelCallsAt(r) = {3}
                        /\ aud[r].calls[3].rules = aud[r].env.fallback.value
            /\ (aud[r].env.primary.ok /\ aud[r].env.primary.value # <<>>) =>
                  /\ FallbackCallsAt(r) = {}
                  /\ RetrieverCallsAt(r) = {1}
                  /\ ModelCallsAt(r) = {2}
                  /\ aud[r].calls[2].rules = aud[r].env.primary.value

\* C11 witness: the primary query and the fallback query both returned no
\* document, and the model was called
C11_Witness ==
    \E r \in Runs :
        /\ aud[r].ran
        /\ aud[r].env.primary.ok /\ aud[r].env.primary.value = <<>>
        /\ aud[r].env.fallback.ok /\ aud[r].env.fallback.value = <<>>
        /\ ModelCallsAt(r) = {3}
        /\ node[r] = "END"

\* the Auditor of run r returned the output of its except branch
ReturnedFailure(r) ==
    /\ aud[r].res.returned
    /\ Has(aud[r].res.out, "errors")
    /\ DOMAIN aud[r].res.out = {"errors", "final_status"}
    /\ aud[r].res.out.final_status = "FAIL"

\* C12: the model is invoked at most once in an Auditor run, and the
\* Auditor runs at most once in a pipeline run; when the invocation raises
\* or the answer cannot be parsed or read, the invocation is the node's
\* last call and the node returns its failure output.
C12_ModelInvokedAtMostOnce ==
    \A r \in Runs :
        /\ Cardinality({i \in 1..Len(visited[r]) : visited[r][i] = "auditor"}) <= 1
        /\ aud[r].ran =>
              /\ Cardinality(ModelCallsAt(r)) <= 1
              /\ (ModelCallsAt(r) # {}
                    /\ (~aud[r].env.llm.ok \/ ~ParseAnswer(aud[r].env.llm.value).ok)) =>
                    /\ ModelCallsAt(r) = {Len(aud[r].calls)}
                    /\ ReturnedFailure(r)
                    /\ node[r] = "END"

\* C12 witness: a run that ended with the failure output after one
\* invocation of the model, whose answer was not parseable
C12_Witness ==
    \E r \in Runs :
        /\ node[r] = "END" /\ Cardinality(ModelCallsAt(r)) = 1
        /\ ReturnedFailure(r)
        /\ aud[r].env.llm.ok /\ ~JsonLoads(CleanMarkdown(aud[r].env.llm.value)).ok

\* x is the whole text of one JSON object
IsObjectText(x) ==
    \/ Len(x) = 1 /\ x[1].t = "json" /\ x[1].v.kind = "object"
    \/ /\ Len(x) = 3
       /\ x[1].t = "json_head" /\ x[2].t = "fence" /\ x[3].t = "json_tail"
       /\ x[1].v.kind = "object"

NoFence(x) == \A i \in 1..Len(x) : x[i].t # "fence"

\* in the answer c the text at i..j is wrapped in a code fence: an opening
\* fence, with or without the json tag, the text, a closing fence;
\* whitespace may surround the text and text without backticks may come
\* before and after the fence
FencedAt(c, i, j) ==
    \E a, b \in 1..Len(c) :
        /\ a < b /\ c[a].t = "fence" /\ c[b].t = "fence"
        /\ NoFence(SubSeq(c, 1, a - 1)) /\ NoFence(SubSeq(c, b + 1, Len(c)))
        /\ LET from == IF c[a + 1].t = "tag" /\ c[a + 1].v = "json"
                       THEN a + 2 ELSE a + 1
           IN  /\ from <= i /\ j <= b - 1
               /\ \A k \in (from..(i - 1)) \cup ((j + 1)..(b - 1)) : c[k].t = "ws"

\* where the answer c holds the text of a JSON object wrapped in a code
\* fence
FencedObjectsAt(c) ==
    {p \in (1..Len(c)) \X (1..Len(c)) :
        IsObjectText(SubSeq(c, p[1], p[2])) /\ FencedAt(c, p[1], p[2])}

\* what the Auditor returns for an answer that is the JSON object obj
AnswerOutput(obj) ==
    [compliance_results |-> IF Has(obj, "compliance_results")
                            THEN obj.compliance_results ELSE <<>>,
     final_status |-> IF Has(obj, "status") THEN obj.status ELSE "FAIL",
     final_report |-> IF Has(obj, "final_report")
                      THEN obj.final_report ELSE "No report generated."]

\* C13: when the model's answer is a valid JSON object wrapped in a code
\* fence, with or without the json tag and with or without text around the
\* fence, the Auditor returns the output read from that object, the same
\* as for the object's bare text; an answer without any fence is parsed as
\* it is.
C13_FencedAnswerParsedAsBare ==
    \A r \in Runs :
        (aud[r].ran /\ ModelCallsAt(r) # {} /\ aud[r].env.llm.ok) =>
            LET c == aud[r].env.llm.value
            IN  /\ \A p \in FencedObjectsAt(c) :
                      /\ aud[r].res = Returned(AnswerOutput(c[p[1]].v.obj))
                      /\ aud[r].res = TryInference(Ok(SubSeq(c, p[1], p[2])))
                /\ NoFence(c) =>
                      /\ aud[r].res.returned
                      /\ IsObjectText(RStripWs(LStripWs(c))) =>
                            aud[r].res.out = AnswerOutput(RStripWs(LStripWs(c))[1].v.obj)
                      /\ ~JsonLoads(c).ok =>
                            /\ Has(aud[r].res.out, "errors")
                            /\ aud[r].res.out.errors = <<JsonLoads(c).msg>>

\* the first alternative of every segment that has alternatives
FirstAlternatives(speech) ==
    LET with == SelectSeq(speech, LAMBDA g : g.alternatives # <<>>)
    IN  [i \in 1..Len(with) |-> with[i].alternatives[1]]

\* s without the whitespace at its ends
Trimmed(s) ==
    LET keep == {i \in 1..Len(s) : ~IsSpace(s[i])}
    IN  IF keep = {} THEN <<>>
        ELSE SubSeq(s, CHOOSE i \in keep : \A k \in keep : i <= k,
                       CHOOSE j \in keep : \A k \in keep : k <= j)

\* the maximal runs of ASCII characters of s that are not whitespace
RECURSIVE WordsOf(_)
WordsOf(s) ==
    IF s = <<>> THEN <<>>
    ELSE IF IsSpace(Head(s)) \/ Head(s) > 127 THEN WordsOf(Tail(s))
    ELSE IF Len(s) > 1 /\ ~(IsSpace(s[2]) \/ s[2] > 127)
    THEN <<<<Head(s)>> \o Head(WordsOf(Tail(s)))>> \o Tail(WordsOf(Tail(s)))
    ELSE <<<<Head(s)>>>> \o WordsOf(Tail(s))

\* extract_data returned for a response with annotation results
Extracted == call.ran /\ call.tried.ok /\ call.analysis_result.annotation_results # <<>>

SpokenText == Join(FirstAlternatives(
                     call.analysis_result.annotation_results[1].speech_transcriptions),
                   <<32>>)
ShownLines == call.analysis_result.annotation_results[1].text_annotations

\* without speech and with OCR annotations the transcript is the OCR texts
\* joined by spaces, runs of non-ASCII characters and of whitespace turned
\* into one space and the ends trimmed, that is, the words of the joined
\* text with one space between them; ocr_text is the OCR annotations
OcrFallbackAndLines ==
    /\ (Trimmed(SpokenText) = <<>> /\ ShownLines # <<>>) =>
          /\ Has(call.tried.value, "transcript")
          /\ call.tried.value.transcript
               = Join(WordsOf(Join(ShownLines, <<32>>)), <<32>>)
    /\ call.tried.value.ocr_text = ShownLines

\* C14 as stated: without speech the transcript is the cleaned OCR text;
\* with speech it is the first alternatives of the segments joined by
\* spaces; ocr_text lists the OCR annotations unmodified.
C14_TranscriptAsStated ==
    Extracted =>
        /\ OcrFallbackAndLines
        /\ Trimmed(SpokenText) # <<>> => call.tried.value.transcript = SpokenText

\* C14 as amended: without speech the transcript is the cleaned OCR text;
\* with speech it is the first alternatives of the segments that have one,
\* joined by spaces and trimmed of the whitespace at both ends;
\* ocr_text lists the OCR annotations unmodified.
C14_TranscriptFromSpeechOrOcr ==
    Extracted =>
        /\ OcrFallbackAndLines
        /\ Trimmed(SpokenText) # <<>> =>
              call.tried.value.transcript = Trimmed(SpokenText)

\* C14 witness: the segments " no", one without alternatives and one
\* with the alternatives "no" and " no", beside two OCR texts, gave the
\* transcript "no no" and both OCR texts as ocr_text
C14_Witness ==
    /\ Extracted
    /\ call.analysis_result.annotation_results[1].speech_transcriptions
         = <<[alternatives |-> <<<<32, 110, 111>>>>],
             [alternatives |-> <<>>],
             [alternatives |-> <<<<110, 111>>, <<32, 110, 111>>>>]>>
    /\ SpokenText = <<32, 110, 111, 32, 110, 111>>
    /\ ShownLines = <<<<88, 233, 32, 89>>, <<88>>>>
    /\ call.tried.value.transcript = <<110, 111, 32, 110, 111>>
    /\ call.tried.value.ocr_text = <<<<88, 233, 32, 89>>, <<88>>>>

\* run r has ended, and was started with no errors and no results
CompletedFromEmpty(r) ==
    /\ node[r] = "END"
    /\ input[r].errors = <<>>
    /\ input[r].compliance_results = <<>>

\* C15: in the final state of a completed run started with errors = [] and
\* compliance_results = [], final_status is PASS only if no step of the
\* Indexer's try block raised, the transcript is not empty, the model was
\* invoked and its answer parsed, and errors is empty; a final state with
\* errors or with an empty transcript has final_status FAIL.
C15_PassOnlyAfterCleanRun ==
    \A r \in Runs :
        CompletedFromEmpty(r) =>
            /\ Has(st[r], "final_status")
            /\ st[r].final_status = "PASS" =>
                  /\ idx[r].ran /\ idx[r].tried.ok
                  /\ Has(st[r], "transcript") /\ st[r].transcript # <<>>
                  /\ aud[r].ran /\ ModelCallsAt(r) # {}
                  /\ aud[r].env.llm.ok /\ ParseAnswer(aud[r].env.llm.value).ok
                  /\ st[r].errors = <<>>
            /\ (st[r].errors # <<>> \/ Get(st[r], "transcript", <<>>) = <<>>) =>
                  st[r].final_status = "FAIL"

\* C15 witness: a completed run, started with empty lists, that ended PASS
\* with a transcript and without errors
C15_Witness ==
    \E r \in Runs :
        /\ CompletedFromEmpty(r)
        /\ st[r].final_status = "PASS"
        /\ st[r].transcript # <<>> /\ st[r].errors = <<>>
        /\ ModelCallsAt(r) # {}
====
